---- MODULE Spec2Model ----
(***************************************************************************)
(* pkitool: the certificate manager of pkg/certmgr (certmgr.go and its     *)
(* validation rules), modelled as a state machine over the storage         *)
(* directory.                                                              *)
(*                                                                         *)
(* A file name and an alias are sequences of one-character strings, so     *)
(* that the suffix test and the suffix stripping of List are computed.     *)
(* An attribute value of a distinguished name is the code of a             *)
(* one-character string (0 is the empty string), so that the DER order of  *)
(* a multi-valued RDN is the numeric order.  An RSA key pair is a natural  *)
(* number: the private key k has the public key k.  Validity dates are not *)
(* modelled.                                                               *)
(***************************************************************************)
EXTENDS Integers, Sequences, FiniteSets, TLC

VARIABLES
    fs,          \* the storage directory: file name -> [data, perm]
    privileged,  \* whether the process bypasses file permission bits (root)
    nextKey,     \* the next key pair rsa.GenerateKey returns
    pc,          \* pc[p]: where process p is inside save / Delete
    pend,        \* pend[p]: the arguments of the call process p is inside
    last,        \* last[p]: the last completed call of p and what it returned
    hist         \* history: the aliases issued, whether Delete was called, whether a write or removal failed

vars == <<fs, privileged, nextKey, pc, pend, last, hist>>

-----------------------------------------------------------------------------
(* Bounds                                                                  *)

MaxKeys == 3
NumProcs == 2

Procs == 1..NumProcs

-----------------------------------------------------------------------------
(* Program constants                                                       *)

typeCert == "CERTIFICATE"
typeRsaPrivateKey == "RSA PRIVATE KEY"

certPerm == 416      \* 0o640
keyPerm == 256       \* 0o400

pemSuffix == <<".", "p", "e", "m">>
keySuffix == <<".", "k", "e", "y">>

\* x509.KeyUsage bits
KeyUsageDigitalSignature == 1
KeyUsageDataEncipherment == 8
KeyUsageCertSign == 32
KeyUsageCRLSign == 64

ExtKeyUsageClientAuth == "ClientAuth"
ExtKeyUsageServerAuth == "ServerAuth"

\* errors
NoErr == "nil"
ErrAliasMissing == "ErrAliasMissing"
ErrSubjectMissing == "ErrSubjectMissing"
ErrParentAliasMissing == "ErrParentAliasMissing"
ErrValidYears == "invalid ValidYears"
ErrNotExist == "ErrNotExist"
ErrFormat == "can't load"
ErrParse == "x509 parse error"
ErrIO == "I/O error"
ErrKeyGen == "rsa key generation error"
ErrSign == "x509 signing error"

-----------------------------------------------------------------------------
(* Sequence helpers                                                        *)

Range(s) == {s[i] : i \in 1..Len(s)}

UniqNothing(s) == s

\* lo.Uniq: the first occurrence of every element, in order
Uniq(s) ==
    LET RECURSIVE go(_, _)
        go(rest, acc) ==
            IF rest = <<>> THEN acc
            ELSE go(Tail(rest),
                    IF Head(rest) \in Range(acc) THEN acc ELSE Append(acc, Head(rest)))
    IN go(s, <<>>)

HasSuffix(s, suffix) ==
    /\ Len(s) >= Len(suffix)
    /\ SubSeq(s, Len(s) - Len(suffix) + 1, Len(s)) = suffix

CharCode(c) ==
    CASE c = "." -> 46
      [] c = "a" -> 97
      [] c = "b" -> 98
      [] c = "c" -> 99
      [] c = "e" -> 101
      [] c = "k" -> 107
      [] c = "m" -> 109
      [] c = "p" -> 112
      [] c = "y" -> 121
      [] OTHER -> 0

RECURSIVE NameLess(_, _)
NameLess(x, y) ==
    IF x = <<>> THEN y # <<>>
    ELSE IF y = <<>> THEN FALSE
    ELSE IF CharCode(Head(x)) # CharCode(Head(y)) THEN CharCode(Head(x)) < CharCode(Head(y))
    ELSE NameLess(Tail(x), Tail(y))

RECURSIVE SortNames(_)
SortNames(S) ==
    IF S = {} THEN <<>>
    ELSE LET m == CHOOSE x \in S : \A y \in S \ {x} : NameLess(x, y)
         IN <<m>> \o SortNames(S \ {m})

-----------------------------------------------------------------------------
(* pkix.Name and its DER form                                              *)
(*                                                                         *)
(* A Name is [Country, Organization, CommonName]: two of the list-valued   *)
(* attributes and the single-valued one; the other list-valued attributes  *)
(* of pkix.Name take the same path (appendRDNs) as these two.              *)

NoName == [Country |-> <<>>, Organization |-> <<>>, CommonName |-> 0]

\* asn1.Marshal of a SET OF: the encoded elements in ascending order
RECURSIVE InsertSorted(_, _)
InsertSorted(v, s) ==
    IF s = <<>> THEN <<v>>
    ELSE IF v <= Head(s) THEN <<v>> \o s
    ELSE <<Head(s)>> \o InsertSorted(v, Tail(s))

RECURSIVE DerSetOf(_)
DerSetOf(values) ==
    IF values = <<>> THEN <<>>
    ELSE InsertSorted(Head(values), DerSetOf(Tail(values)))

\* Name.appendRDNs: one RDN holding every value of the attribute
appendRDNs(rdns, values, oid) ==
    IF Len(values) = 0 THEN rdns
    ELSE Append(rdns, [i \in 1..Len(values) |-> [Type |-> oid, Value |-> values[i]]])

\* Name.ToRDNSequence
ToRDNSequence(n) ==
    LET r1 == appendRDNs(<<>>, n.Country, "C")
        r2 == appendRDNs(r1, n.Organization, "O")
    IN IF n.CommonName # 0 THEN appendRDNs(r2, <<n.CommonName>>, "CN") ELSE r2

\* asn1.Marshal(RDNSequence): every RDN is a SET OF, its members sorted
MarshalRDNSequence(rdns) ==
    [i \in 1..Len(rdns) |->
        LET t == rdns[i][1].Type
            vs == DerSetOf([j \in 1..Len(rdns[i]) |-> rdns[i][j].Value])
        IN [j \in 1..Len(vs) |-> [Type |-> t, Value |-> vs[j]]]]

\* Name.FillFromRDNSequence
RECURSIVE FillFromAttrs(_, _)
FillFromAttrs(n, atvs) ==
    IF atvs = <<>> THEN n
    ELSE LET a == Head(atvs)
             n2 == CASE a.Type = "C" -> [n EXCEPT !.Country = Append(@, a.Value)]
                     [] a.Type = "O" -> [n EXCEPT !.Organization = Append(@, a.Value)]
                     [] a.Type = "CN" -> [n EXCEPT !.CommonName = a.Value]
                     [] OTHER -> n
         IN FillFromAttrs(n2, Tail(atvs))

RECURSIVE FlattenRDNs(_)
FlattenRDNs(rdns) ==
    IF rdns = <<>> THEN <<>> ELSE Head(rdns) \o FlattenRDNs(Tail(rdns))

FillFromRDNSequence(rdns) == FillFromAttrs(NoName, FlattenRDNs(rdns))

\* Name.String of a caller-built name: one "type=value" item per attribute
NameString(n) == FlattenRDNs(ToRDNSequence(n))

-----------------------------------------------------------------------------
(* Certificates, keys and PEM blocks                                       *)

\* the request descriptor
CertData(keySize, validYears, ipSan, dnsSan, alias, parentAlias, selfSigned, isCA, issuer, subject, serial) ==
    [KeySize |-> keySize, ValidYears |-> validYears, IPSan |-> ipSan, DNSSan |-> dnsSan,
     Alias |-> alias, ParentAlias |-> parentAlias, SelfSigned |-> selfSigned,
     IsCA |-> isCA, Issuer |-> issuer, Subject |-> subject, Serial |-> serial]

BadDER == [der |-> "bad"]

\* x509.MarshalPKCS1PrivateKey / x509.ParsePKCS1PrivateKey
MarshalPKCS1PrivateKey(k) == [der |-> "key", K |-> k]

ParsePKCS1PrivateKey(bytes) ==
    IF bytes.der = "key" THEN [err |-> NoErr, Key |-> bytes.K]
    ELSE [err |-> ErrParse, Key |-> 0]

\* x509.ParseCertificate
ParseCertificate(bytes) ==
    IF bytes.der # "cert" THEN [err |-> ErrParse]
    ELSE [err |-> NoErr,
          Cert |-> [Subject |-> FillFromRDNSequence(bytes.Subject),
                    Issuer |-> FillFromRDNSequence(bytes.Issuer),
                    RawSubject |-> bytes.Subject,
                    IsCA |-> bytes.IsCA,
                    BasicConstraintsValid |-> bytes.BasicConstraintsValid,
                    KeyUsage |-> bytes.KeyUsage,
                    ExtKeyUsage |-> bytes.ExtKeyUsage,
                    DNSNames |-> bytes.DNSNames,
                    IPAddresses |-> bytes.IPAddresses,
                    SerialNumber |-> bytes.SerialNumber,
                    PublicKey |-> bytes.PublicKey,
                    SignedBy |-> bytes.SignedBy]]

\* x509.subjectBytes: the raw subject of a parsed certificate, else the
\* marshalled Subject
subjectBytes(cert) ==
    IF Len(cert.RawSubject) > 0 THEN cert.RawSubject
    ELSE MarshalRDNSequence(ToRDNSequence(cert.Subject))

\* x509.CreateCertificate(rand, template, parent, pub, priv): the issuer of
\* the result is the subject of parent (template.Issuer is not read); a
\* parent that carries a public key must match priv; a negative serial
\* number is refused.
CreateCertificate(template, parent, pub, priv) ==
    IF template.SerialNumber < 0 THEN [err |-> ErrSign]
    ELSE IF parent.PublicKey # 0 /\ parent.PublicKey # priv THEN [err |-> ErrSign]
    ELSE [err |-> NoErr,
          Bytes |-> [der |-> "cert",
                     Subject |-> subjectBytes(template),
                     Issuer |-> subjectBytes(parent),
                     IsCA |-> template.IsCA,
                     BasicConstraintsValid |-> template.BasicConstraintsValid,
                     KeyUsage |-> template.KeyUsage,
                     ExtKeyUsage |-> template.ExtKeyUsage,
                     DNSNames |-> template.DNSNames,
                     IPAddresses |-> template.IPAddresses,
                     SerialNumber |-> template.SerialNumber,
                     PublicKey |-> pub,
                     SignedBy |-> priv]]

\* rsa.GenerateKey(rand, bits)
GenerateKey(bits, fresh) ==
    IF bits < 1024 THEN [err |-> ErrKeyGen, Key |-> 0]
    ELSE [err |-> NoErr, Key |-> fresh]

\* pem.Encode / pem.Decode; a file that holds no block is RawData
pemEncode(type, bytes) == [kind |-> "pem", Type |-> type, Bytes |-> bytes]

RawData == [kind |-> "raw", Type |-> "", Bytes |-> BadDER]

pemDecode(data) == IF data.kind = "pem" THEN [nil |-> FALSE, Type |-> data.Type, Bytes |-> data.Bytes]
                   ELSE [nil |-> TRUE, Type |-> "", Bytes |-> BadDER]

-----------------------------------------------------------------------------
(* Alias storage                                                           *)

aliasToFileAlwaysCert(alias, private) == alias \o pemSuffix

aliasToFileSwapped(alias, private) ==
    alias \o (IF private THEN pemSuffix ELSE keySuffix)

\* certMgr.aliasToFile, relative to the storage directory
aliasToFile(alias, private) ==
    alias \o (IF private THEN keySuffix ELSE pemSuffix)

Exists(dir, file) == file \in DOMAIN dir

\* os.ReadFile
ReadFile(dir, file) ==
    IF Exists(dir, file) THEN [err |-> NoErr, data |-> dir[file].data]
    ELSE [err |-> ErrNotExist, data |-> RawData]

\* certMgr.doesAliasFileExist
doesAliasFileExist(dir, alias, private) == Exists(dir, aliasToFile(alias, private))

\* certMgr.isAliasFilename
isAliasFilename(file) == HasSuffix(file, pemSuffix) \/ HasSuffix(file, keySuffix)

\* certMgr.fileToAlias
fileToAlias(file) == SubSeq(file, 1, Len(file) - 4)

\* os.ReadDir: the entries sorted by file name
ReadDir(dir) == SortNames(DOMAIN dir)

RECURSIVE FilterAliasFiles(_)
FilterAliasFiles(entries) ==
    IF entries = <<>> THEN <<>>
    ELSE (IF isAliasFilename(Head(entries)) THEN <<Head(entries)>> ELSE <<>>)
         \o FilterAliasFiles(Tail(entries))

\* certMgr.List
ListAliases(dir) ==
    LET entries == ReadDir(dir)
        files == FilterAliasFiles(entries)
    IN Uniq([i \in 1..Len(files) |-> fileToAlias(files[i])])

loadAnyBlockType(dir, alias) ==
    LET c == ReadFile(dir, alias \o pemSuffix)
        cb == pemDecode(c.data)
        cert == ParseCertificate(cb.Bytes)
        k == ReadFile(dir, alias \o keySuffix)
        kb == pemDecode(k.data)
        key == ParsePKCS1PrivateKey(kb.Bytes)
    IN IF c.err # NoErr THEN [err |-> c.err]
       ELSE IF cb.nil THEN [err |-> ErrFormat]
       ELSE IF cert.err # NoErr THEN [err |-> cert.err]
       ELSE IF k.err # NoErr THEN [err |-> k.err]
       ELSE IF kb.nil THEN [err |-> ErrFormat]
       ELSE IF key.err # NoErr THEN [err |-> key.err]
       ELSE [err |-> NoErr, Cert |-> cert.Cert, Key |-> key.Key]

\* certMgr.load
load(dir, alias) ==
    LET c == ReadFile(dir, alias \o pemSuffix)
        cb == pemDecode(c.data)
        cert == ParseCertificate(cb.Bytes)
        k == ReadFile(dir, alias \o keySuffix)
        kb == pemDecode(k.data)
        key == ParsePKCS1PrivateKey(kb.Bytes)
    IN IF c.err # NoErr THEN [err |-> c.err]
       ELSE IF cb.nil \/ cb.Type # typeCert THEN [err |-> ErrFormat]
       ELSE IF cert.err # NoErr THEN [err |-> cert.err]
       ELSE IF k.err # NoErr THEN [err |-> k.err]
       ELSE IF kb.nil \/ kb.Type # typeRsaPrivateKey THEN [err |-> ErrFormat]
       ELSE IF key.err # NoErr THEN [err |-> key.err]
       ELSE [err |-> NoErr, Cert |-> cert.Cert, Key |-> key.Key]

-----------------------------------------------------------------------------
(* Validation rules                                                        *)

requireAlias(data) == IF Len(data.Alias) = 0 THEN ErrAliasMissing ELSE NoErr

requireSubject(data) == IF Len(NameString(data.Subject)) = 0 THEN ErrSubjectMissing ELSE NoErr

requireParentAlias(data) == IF Len(data.ParentAlias) = 0 THEN ErrParentAliasMissing ELSE NoErr

validAtLeastYears(years, data) == IF data.ValidYears < years THEN ErrValidYears ELSE NoErr

RECURSIVE checkLastFailure(_)
checkLastFailure(results) ==
    IF results = <<>> THEN NoErr
    ELSE IF checkLastFailure(Tail(results)) # NoErr THEN checkLastFailure(Tail(results))
    ELSE Head(results)

\* check: the error of the first rule that fails
RECURSIVE check(_)
check(results) ==
    IF results = <<>> THEN NoErr
    ELSE IF Head(results) # NoErr THEN Head(results)
    ELSE check(Tail(results))

RootRules(cd) == <<requireSubject(cd), requireAlias(cd), validAtLeastYears(1, cd)>>

ChainRulesParentFirst(cd) ==
    <<requireParentAlias(cd), requireSubject(cd), requireAlias(cd), validAtLeastYears(1, cd)>>

ChainRules(cd) ==
    <<requireSubject(cd), requireAlias(cd), requireParentAlias(cd), validAtLeastYears(1, cd)>>

-----------------------------------------------------------------------------
(* Issuance engine                                                         *)

getKeyUsageAlwaysLeaf(cd) == KeyUsageDataEncipherment + KeyUsageDigitalSignature

\* getKeyUsage
getKeyUsage(cd) ==
    IF cd.IsCA THEN KeyUsageCertSign + KeyUsageCRLSign
    ELSE KeyUsageDataEncipherment + KeyUsageDigitalSignature

\* create, lines 189-221: the template
Template(cd, issuer) ==
    [Subject |-> cd.Subject,
     Issuer |-> issuer,
     RawSubject |-> <<>>,
     IsCA |-> cd.IsCA,
     BasicConstraintsValid |-> TRUE,
     KeyUsage |-> getKeyUsage(cd),
     ExtKeyUsage |-> IF ~cd.IsCA THEN <<ExtKeyUsageClientAuth, ExtKeyUsageServerAuth>> ELSE <<>>,
     DNSNames |-> IF ~cd.IsCA THEN cd.DNSSan ELSE <<>>,
     IPAddresses |-> IF ~cd.IsCA THEN cd.IPSan ELSE <<>>,
     SerialNumber |-> IF cd.Serial # 0 THEN cd.Serial ELSE 0,
     PublicKey |-> 0,
     SignedBy |-> 0]

\* create, lines 198-206: the parent pair (none when self-signed)
NoPair == [err |-> NoErr, Cert |-> Template(CertData(0, 0, <<>>, <<>>, <<>>, <<>>, TRUE, TRUE, NoName, NoName, 0), NoName), Key |-> 0]

loadParent(dir, cd) == IF ~cd.SelfSigned THEN load(dir, cd.ParentAlias) ELSE NoPair

issuerOf(cd, ch) == IF ~cd.SelfSigned THEN ch.Cert.Subject ELSE cd.Issuer

signingCertAlwaysSelf(cd, newCert, ch) == newCert

\* create, lines 233-239: the certificate and the key that sign
signingCert(cd, newCert, ch) == IF cd.SelfSigned THEN newCert ELSE ch.Cert

signingKeyAlwaysParent(cd, newKey, ch) == ch.Key

signingKey(cd, newKey, ch) == IF cd.SelfSigned THEN newKey ELSE ch.Key

\* create, up to the call of save: the error, or the two byte blobs to save
create(dir, cd, fresh) ==
    LET ch == loadParent(dir, cd)
    IN IF ch.err # NoErr THEN [err |-> ch.err]
       ELSE
       LET newCert == Template(cd, issuerOf(cd, ch))
           newKey == GenerateKey(cd.KeySize, fresh)
           parentCert == signingCert(cd, newCert, ch)
           privateKey == signingKey(cd, newKey.Key, ch)
           signed == CreateCertificate(newCert, parentCert, newKey.Key, privateKey)
       IN IF newKey.err # NoErr THEN [err |-> newKey.err]
          ELSE IF signed.err # NoErr THEN [err |-> signed.err]
          ELSE [err |-> NoErr,
                ch |-> ch,
                cert |-> signed.Bytes,
                key |-> MarshalPKCS1PrivateKey(newKey.Key)]

-----------------------------------------------------------------------------
(* File system calls                                                       *)
(*                                                                         *)
(* The outcome of a write or a removal is chosen by the environment:       *)
(* "ok", "eopen" (the call fails before it touches the file) or "ewrite"   *)
(* (the file was opened and truncated, then the write failed).             *)

ownerCanWrite(perm) == (perm \div 128) % 2 = 1

\* os.WriteFile(name, data, perm): O_WRONLY|O_CREATE|O_TRUNC; perm is used
\* only when the file is created
WriteFile(dir, file, data, perm, io, root) ==
    LET old == Exists(dir, file)
        mode == IF old THEN dir[file].perm ELSE perm
        put(d) == [f \in DOMAIN dir \cup {file} |->
                     IF f = file THEN [data |-> d, perm |-> mode] ELSE dir[f]]
    IN IF old /\ ~ownerCanWrite(mode) /\ ~root THEN [err |-> ErrIO, dir |-> dir]
       ELSE IF io = "eopen" THEN [err |-> ErrIO, dir |-> dir]
       ELSE IF io = "ewrite" THEN [err |-> ErrIO, dir |-> put(RawData)]
       ELSE [err |-> NoErr, dir |-> put(data)]

\* os.Remove(name)
Remove(dir, file, io) ==
    IF ~Exists(dir, file) THEN [err |-> ErrNotExist, dir |-> dir]
    ELSE IF io # "ok" THEN [err |-> ErrIO, dir |-> dir]
    ELSE [err |-> NoErr, dir |-> [f \in DOMAIN dir \ {file} |-> dir[f]]]

IsNotExistNever(err) == FALSE

\* os.IsNotExist
IsNotExist(err) == err = ErrNotExist

-----------------------------------------------------------------------------
(* Operations                                                              *)

\* what the alias holds
HasCert(dir, alias) == Exists(dir, alias \o pemSuffix)
HasKey(dir, alias) == Exists(dir, alias \o keySuffix)
HasFiles(dir, alias) == HasCert(dir, alias) \/ HasKey(dir, alias)

NoPend == [op |-> "none"]

Idle(p) == pc[p] = "idle"

\* the call of process p returns
Return(p, op, arg, err, out) ==
    /\ last' = [last EXCEPT ![p] = [op |-> op, arg |-> arg, err |-> err, out |-> out]]
    /\ pc' = [pc EXCEPT ![p] = "idle"]
    /\ pend' = [pend EXCEPT ![p] = NoPend]

CreateErrorsUnchecked(p, op, cd0, cd) ==
    LET ch == loadParent(fs, cd).err
        keyGenerated == ch = NoErr /\ GenerateKey(cd.KeySize, nextKey).err = NoErr
        r == create(fs, cd, nextKey)
    IN /\ ch = NoErr => nextKey <= MaxKeys
       /\ nextKey' = IF keyGenerated THEN nextKey + 1 ELSE nextKey
       /\ UNCHANGED <<fs, privileged, hist, last>>
       /\ pc' = [pc EXCEPT ![p] = "saveCert"]
       /\ pend' = [pend EXCEPT ![p] =
                     IF r.err # NoErr
                     THEN [op |-> op, arg |-> cd0, alias |-> cd.Alias, ch |-> NoPair,
                           cert |-> BadDER, key |-> BadDER]
                     ELSE [op |-> op, arg |-> cd0, alias |-> cd.Alias, ch |-> r.ch,
                           cert |-> r.cert, key |-> r.key]]

\* certMgr.create, called with the flags the issue operation forced
Create(p, op, cd0, cd) ==
    LET ch == loadParent(fs, cd).err
        keyGenerated == ch = NoErr /\ GenerateKey(cd.KeySize, nextKey).err = NoErr
        r == create(fs, cd, nextKey)
    IN /\ ch = NoErr => nextKey <= MaxKeys
       /\ nextKey' = IF keyGenerated THEN nextKey + 1 ELSE nextKey
       /\ UNCHANGED <<fs, privileged, hist>>
       /\ IF r.err # NoErr
          THEN Return(p, op, cd0, r.err, <<>>)
          ELSE /\ pc' = [pc EXCEPT ![p] = "saveCert"]
               /\ pend' = [pend EXCEPT ![p] =
                             [op |-> op, arg |-> cd0, alias |-> cd.Alias, ch |-> r.ch,
                              cert |-> r.cert, key |-> r.key]]
               /\ UNCHANGED last

Rejected(p, op, cd0, err) ==
    /\ Return(p, op, cd0, err, <<>>)
    /\ UNCHANGED <<fs, privileged, nextKey, hist>>

NewRootCAFlagsAsGiven(p, cd0) ==
    /\ Idle(p)
    /\ LET err == check(RootRules(cd0))
       IN IF err # NoErr THEN Rejected(p, "NewRootCA", cd0, err)
          ELSE Create(p, "NewRootCA", cd0, [cd0 EXCEPT !.SelfSigned = TRUE])

\* certMgr.NewRootCA
NewRootCA(p, cd0) ==
    /\ Idle(p)
    /\ LET err == check(RootRules(cd0))
       IN IF err # NoErr THEN Rejected(p, "NewRootCA", cd0, err)
          ELSE Create(p, "NewRootCA", cd0, [cd0 EXCEPT !.SelfSigned = TRUE, !.IsCA = TRUE])

\* certMgr.NewIntermediateCA
NewIntermediateCA(p, cd0) ==
    /\ Idle(p)
    /\ LET err == check(ChainRules(cd0))
       IN IF err # NoErr THEN Rejected(p, "NewIntermediateCA", cd0, err)
          ELSE Create(p, "NewIntermediateCA", cd0,
                      [cd0 EXCEPT !.SelfSigned = FALSE, !.IsCA = TRUE])

\* certMgr.NewLeaf
NewLeaf(p, cd0) ==
    /\ Idle(p)
    /\ LET err == check(ChainRules(cd0))
       IN IF err # NoErr THEN Rejected(p, "NewLeaf", cd0, err)
          ELSE Create(p, "NewLeaf", cd0, [cd0 EXCEPT !.SelfSigned = FALSE, !.IsCA = FALSE])

\* certMgr.save: the write of the certificate file
SaveCert(p, io) ==
    /\ pc[p] = "saveCert"
    /\ LET w == WriteFile(fs, aliasToFile(pend[p].alias, FALSE),
                          pemEncode(typeCert, pend[p].cert), certPerm, io, privileged)
       IN /\ fs' = w.dir
          /\ IF w.err # NoErr
             THEN /\ Return(p, pend[p].op, pend[p].arg, w.err, <<>>)
                  /\ hist' = [hist EXCEPT !.ioFailed = TRUE]
             ELSE /\ pc' = [pc EXCEPT ![p] = "saveKey"]
                  /\ UNCHANGED <<pend, last, hist>>
    /\ UNCHANGED <<privileged, nextKey>>

SaveKeyWithCert(p, io) ==
    /\ pc[p] = "saveKey"
    /\ LET c == WriteFile(fs, aliasToFile(pend[p].alias, FALSE),
                          pemEncode(typeCert, pend[p].cert), certPerm, "ok", TRUE)
           w == WriteFile(c.dir, aliasToFile(pend[p].alias, TRUE),
                          pemEncode(typeRsaPrivateKey, pend[p].key), keyPerm, io, privileged)
       IN /\ fs' = w.dir
          /\ Return(p, pend[p].op, pend[p].arg, w.err,
                    IF w.err = NoErr THEN [ch |-> pend[p].ch] ELSE <<>>)
          /\ hist' = IF w.err # NoErr THEN [hist EXCEPT !.ioFailed = TRUE]
                     ELSE [hist EXCEPT !.issued = @ \cup {pend[p].alias}]
    /\ UNCHANGED <<privileged, nextKey>>

\* certMgr.save: the write of the key file
SaveKey(p, io) ==
    /\ pc[p] = "saveKey"
    /\ LET w == WriteFile(fs, aliasToFile(pend[p].alias, TRUE),
                          pemEncode(typeRsaPrivateKey, pend[p].key), keyPerm, io, privileged)
       IN /\ fs' = w.dir
          /\ Return(p, pend[p].op, pend[p].arg, w.err,
                    IF w.err = NoErr THEN [ch |-> pend[p].ch] ELSE <<>>)
          /\ hist' = IF w.err # NoErr THEN [hist EXCEPT !.ioFailed = TRUE]
                     ELSE [hist EXCEPT !.issued = @ \cup {pend[p].alias}]
    /\ UNCHANGED <<privileged, nextKey>>

\* certMgr.Delete: the removal of the key file
Delete(p, alias, io) ==
    /\ Idle(p)
    /\ LET r == Remove(fs, aliasToFile(alias, TRUE), io)
       IN /\ fs' = r.dir
          /\ IF r.err # NoErr /\ ~IsNotExist(r.err)
             THEN Return(p, "Delete", alias, r.err, [had |-> TRUE])
             ELSE /\ pc' = [pc EXCEPT ![p] = "delCert"]
                  /\ pend' = [pend EXCEPT ![p] =
                                [op |-> "Delete", alias |-> alias, had |-> HasFiles(fs, alias)]]
                  /\ UNCHANGED last
          /\ hist' = [hist EXCEPT !.deleted = TRUE,
                                  !.ioFailed = @ \/ (r.err # NoErr /\ ~IsNotExist(r.err))]
    /\ UNCHANGED <<privileged, nextKey>>

DeleteCertFailureDropped(p, io) ==
    /\ pc[p] = "delCert"
    /\ LET r == Remove(fs, aliasToFile(pend[p].alias, FALSE), io)
       IN /\ fs' = r.dir
          /\ Return(p, "Delete", pend[p].alias, NoErr, [had |-> pend[p].had])
          /\ hist' = [hist EXCEPT !.ioFailed = @ \/ (r.err # NoErr /\ ~IsNotExist(r.err))]
    /\ UNCHANGED <<privileged, nextKey>>

\* certMgr.Delete: the removal of the certificate file
DeleteCert(p, io) ==
    /\ pc[p] = "delCert"
    /\ LET r == Remove(fs, aliasToFile(pend[p].alias, FALSE), io)
       IN /\ fs' = r.dir
          /\ Return(p, "Delete", pend[p].alias,
                    IF r.err # NoErr /\ ~IsNotExist(r.err) THEN r.err ELSE NoErr,
                    [had |-> pend[p].had])
          /\ hist' = [hist EXCEPT !.ioFailed = @ \/ (r.err # NoErr /\ ~IsNotExist(r.err))]
    /\ UNCHANGED <<privileged, nextKey>>

\* certMgr.Get
Get(p, alias) ==
    /\ Idle(p)
    /\ LET r == load(fs, alias)
       IN Return(p, "Get", alias, r.err, IF r.err = NoErr THEN r ELSE <<>>)
    /\ UNCHANGED <<fs, privileged, nextKey, hist>>

\* certMgr.List
List(p, io) ==
    /\ Idle(p)
    /\ IF io # "ok" THEN Return(p, "List", <<>>, ErrIO, <<>>)
       ELSE Return(p, "List", <<>>, NoErr, ListAliases(fs))
    /\ UNCHANGED <<fs, privileged, nextKey, hist>>

-----------------------------------------------------------------------------
(* Inputs                                                                  *)

NameR == [Country |-> <<>>, Organization |-> <<79>>, CommonName |-> 82]
NameU == [Country |-> <<67>>, Organization |-> <<80, 79>>, CommonName |-> 0]

AliasA == <<"a">>
AliasB == <<"b">>
AliasC == <<"c">>

IoOutcomes == {"ok", "eopen", "ewrite"}

Requests(aliases, parents, subjects, issuers, years, serials, sizes, dnss, ips, flags) ==
    {CertData(ks, y, ip, dns, a, pa, f, f, iss, sub, ser) :
        ks \in sizes, y \in years, ip \in ips, dns \in dnss, a \in aliases,
        pa \in parents, f \in flags, iss \in issuers, sub \in subjects, ser \in serials}

Init ==
    /\ fs = <<>>
    /\ privileged \in BOOLEAN
    /\ nextKey = 1
    /\ pc = [p \in Procs |-> "idle"]
    /\ pend = [p \in Procs |-> NoPend]
    /\ last = [p \in Procs |-> [op |-> "none", arg |-> <<>>, err |-> NoErr, out |-> <<>>]]
    /\ hist = [issued |-> {}, deleted |-> FALSE, ioFailed |-> FALSE]

-----------------------------------------------------------------------------
(* Spec: the single-process run from an empty directory, every operation,  *)
(* every outcome of a write or a removal                                   *)

SpecRequests ==
    Requests({AliasA, AliasB}, {<<>>, AliasA}, {NameR}, {NoName}, {1},
             {0}, {2048}, {<<>>}, {<<>>}, {FALSE})

Next ==
    \/ \E cd \in SpecRequests : NewRootCA(1, cd)
    \/ \E cd \in SpecRequests : NewIntermediateCA(1, cd)
    \/ \E cd \in SpecRequests : NewLeaf(1, cd)
    \/ \E io \in IoOutcomes : SaveCert(1, io)
    \/ \E io \in IoOutcomes : SaveKey(1, io)
    \/ \E a \in {AliasA, AliasB}, io \in {"ok", "eopen"} : Delete(1, a, io)
    \/ \E io \in {"ok", "eopen"} : DeleteCert(1, io)
    \/ \E a \in {AliasA, AliasB} : Get(1, a)
    \/ \E io \in {"ok", "eopen"} : List(1, io)

Spec == Init /\ [][Next]_vars

-----------------------------------------------------------------------------
(* Properties of the single-process run                                    *)

AliasAPem == AliasA \o pemSuffix

ModelAliases == {AliasA, AliasB, AliasC, AliasAPem}

\* C4: Delete of an alias that has no file goes through both removals, returns
\* nil and leaves the directory as it was (so a second Delete after a first
\* one succeeds and changes nothing).
C4_IdempotentDelete ==
    [][/\ \A a \in ModelAliases, io \in IoOutcomes :
            (Delete(1, a, io) /\ ~HasFiles(fs, a)) => (pc'[1] = "delCert" /\ fs' = fs)
       /\ \A io \in IoOutcomes :
            (DeleteCert(1, io) /\ ~HasFiles(fs, pend[1].alias)) =>
                (last'[1].op = "Delete" /\ last'[1].err = NoErr /\ fs' = fs)]_vars

\* a Delete of an alias that was issued and has no file any more returned nil,
\* with other files in the directory
C4_Witness ==
    /\ Idle(1)
    /\ last[1].op = "Delete"
    /\ last[1].err = NoErr
    /\ ~last[1].out.had
    /\ last[1].arg \in hist.issued
    /\ fs # <<>>

Saved(dir, alias) == load(dir, alias).err = NoErr

DeleteStep(alias) ==
    \/ \E io \in IoOutcomes : Delete(1, alias, io)
    \/ pend[1].op = "Delete" /\ pend[1].alias = alias /\ \E io \in IoOutcomes : DeleteCert(1, io)

\* C7: a step that is not a step of Delete(A) leaves both files of a saved
\* pair A in place with the content they had.
C7_SavedPairImmutable ==
    [][\A a \in ModelAliases :
          (Saved(fs, a) /\ ~DeleteStep(a)) =>
              /\ HasCert(fs', a) /\ HasKey(fs', a)
              /\ fs'[aliasToFile(a, FALSE)].data = fs[aliasToFile(a, FALSE)].data
              /\ fs'[aliasToFile(a, TRUE)].data = fs[aliasToFile(a, TRUE)].data]_vars

Without(dir, file) == [f \in DOMAIN dir \ {file} |-> dir[f]]

\* C14: Delete removes the key file first.  A failure of that removal other
\* than not-found is returned at once and leaves the directory as it was;
\* otherwise the key file is gone, the certificate file is as it was and the
\* removal of the certificate file follows.  A failure of that second
\* removal other than not-found is returned with the certificate file in
\* place and the key file gone; otherwise Delete returns nil and the alias
\* has no file.
C14_DeleteFailure ==
    [][/\ \A a \in {AliasA, AliasB}, io \in {"ok", "eopen"} :
            Delete(1, a, io) =>
                IF HasKey(fs, a) /\ io # "ok"
                THEN /\ Idle(1)'
                     /\ last'[1] = [op |-> "Delete", arg |-> a, err |-> ErrIO, out |-> [had |-> TRUE]]
                     /\ fs' = fs
                ELSE /\ pc'[1] = "delCert"
                     /\ last' = last
                     /\ fs' = IF HasKey(fs, a) THEN Without(fs, a \o keySuffix) ELSE fs
       /\ \A io \in {"ok", "eopen"} :
            DeleteCert(1, io) =>
                /\ Idle(1)'
                /\ last'[1].op = "Delete"
                /\ last'[1].arg = pend[1].alias
                /\ ~HasKey(fs', pend[1].alias)
                /\ IF HasCert(fs, pend[1].alias) /\ io # "ok"
                   THEN last'[1].err = ErrIO /\ fs' = fs
                   ELSE last'[1].err = NoErr /\ ~HasFiles(fs', pend[1].alias)]_vars

\* Delete of a saved pair returned the failure of the second removal: the
\* certificate file is there, the key file is not
C14_Witness ==
    /\ Idle(1)
    /\ last[1].op = "Delete"
    /\ last[1].err = ErrIO
    /\ last[1].arg \in hist.issued
    /\ last[1].out.had
    /\ HasCert(fs, last[1].arg)
    /\ ~HasKey(fs, last[1].arg)
    /\ ParseCertificate(pemDecode(fs[last[1].arg \o pemSuffix].data).Bytes).err = NoErr

\* C16: at every state of the single-process run, between the two writes of
\* save and the two removals of Delete and after any failed write or
\* removal, an alias that has a key file has a certificate file.
C16_KeyImpliesCert ==
    \A a \in ModelAliases : HasKey(fs, a) => HasCert(fs, a)

\* after a failed write or removal, save has written the certificate file of
\* an alias and not yet its key file, while another alias holds a pair
C16_Witness ==
    /\ pc[1] = "saveKey"
    /\ hist.ioFailed
    /\ hist.deleted
    /\ HasCert(fs, pend[1].alias)
    /\ ~HasKey(fs, pend[1].alias)
    /\ \E a \in ModelAliases : HasKey(fs, a) /\ HasCert(fs, a)

\* C17: whenever no operation is in progress, every alias whose two files
\* load holds the private key of the public key in its certificate.
C17_KeyMatchesCert ==
    Idle(1) =>
        \A a \in ModelAliases :
            Saved(fs, a) => load(fs, a).Cert.PublicKey = load(fs, a).Key

-----------------------------------------------------------------------------
(* SpecIssue: the issue operations on descriptors that carry an issuer,    *)
(* SAN lists and caller-set flags; writes and removals do not fail         *)

\* a plain descriptor; one that carries an issuer, SAN lists and set flags; one
\* that carries an issuer and a DNS name only
IssueExtras ==
    {[Issuer |-> NoName, DNSSan |-> <<>>, IPSan |-> <<>>, IsCA |-> FALSE, SelfSigned |-> FALSE],
     [Issuer |-> NameR, DNSSan |-> <<1>>, IPSan |-> <<2>>, IsCA |-> TRUE, SelfSigned |-> TRUE],
     [Issuer |-> NameR, DNSSan |-> <<1, 3>>, IPSan |-> <<>>, IsCA |-> FALSE, SelfSigned |-> TRUE]}

WithExtras(reqs, extras) ==
    {[r EXCEPT !.Issuer = e.Issuer, !.DNSSan = e.DNSSan, !.IPSan = e.IPSan,
               !.IsCA = e.IsCA, !.SelfSigned = e.SelfSigned] : r \in reqs, e \in extras}

IssueRootRequests ==
    WithExtras(Requests({AliasA}, {<<>>}, {NameR, NameU}, {NoName}, {1}, {0}, {2048},
                        {<<>>}, {<<>>}, {FALSE}),
               IssueExtras)

IssueChainRequests ==
    WithExtras(Requests({AliasB, AliasC}, {AliasA, AliasB}, {NameU}, {NoName}, {1}, {0}, {2048},
                        {<<>>}, {<<>>}, {FALSE}),
               IssueExtras)

NextIssue ==
    \/ \E cd \in IssueRootRequests : NewRootCA(1, cd)
    \/ \E cd \in IssueChainRequests : NewIntermediateCA(1, cd)
    \/ \E cd \in IssueChainRequests : NewLeaf(1, cd)
    \/ SaveCert(1, "ok")
    \/ SaveKey(1, "ok")
    \/ \E a \in {AliasA, AliasB} : Delete(1, a, "ok")
    \/ DeleteCert(1, "ok")
    \/ \E a \in ModelAliases : Get(1, a)

SpecIssue == Init /\ [][NextIssue]_vars

IssueOps == {"NewRootCA", "NewIntermediateCA", "NewLeaf"}

\* process 1 has just returned nil from one of the operations ops
Returned(ops) == Idle(1) /\ last[1].op \in ops /\ last[1].err = NoErr

\* what Get of the alias of the last call returns now
Stored == load(fs, last[1].arg.Alias)

\* C1: after NewIntermediateCA or NewLeaf returned nil, Get of the alias returns
\* a certificate whose issuer is the subject of the certificate that was loaded
\* from the parent alias, whatever Issuer the descriptor carried.
C1_ChainConsistency ==
    Returned({"NewIntermediateCA", "NewLeaf"}) =>
        /\ Stored.err = NoErr
        /\ Stored.Cert.Issuer = last[1].out.ch.Cert.Subject
        /\ last[1].arg.Alias # last[1].arg.ParentAlias =>
              Stored.Cert.Issuer = load(fs, last[1].arg.ParentAlias).Cert.Subject

\* a leaf was issued under an intermediate CA with a descriptor whose Issuer is
\* set and is not the subject of the parent
C1_Witness ==
    /\ Returned({"NewLeaf"})
    /\ last[1].arg.Issuer = NameR
    /\ last[1].out.ch.Cert.Subject # NameR
    /\ last[1].out.ch.Cert.IsCA
    /\ last[1].out.ch.Cert.Issuer # last[1].out.ch.Cert.Subject
    /\ Stored.Cert.Issuer = last[1].out.ch.Cert.Subject

\* the request's name as DER stores it: the values of every multi-valued
\* attribute in ascending order
DerOrdered(n) ==
    [Country |-> DerSetOf(n.Country), Organization |-> DerSetOf(n.Organization),
     CommonName |-> n.CommonName]

\* C2 as stated: after NewRootCA returned nil, Get of the alias returns a CA
\* certificate whose subject is the request's subject and whose issuer is its
\* subject.
C2_RoundTrip ==
    Returned({"NewRootCA"}) =>
        /\ Stored.err = NoErr
        /\ Stored.Cert.Subject = last[1].arg.Subject
        /\ Stored.Cert.IsCA
        /\ Stored.Cert.Issuer = Stored.Cert.Subject

\* C2 amended: the subject returned is the request's subject with the values of
\* every multi-valued attribute in ascending DER order.
C2_RoundTripDerOrder ==
    Returned({"NewRootCA"}) =>
        /\ Stored.err = NoErr
        /\ Stored.Cert.Subject = DerOrdered(last[1].arg.Subject)
        /\ Stored.Cert.IsCA
        /\ Stored.Cert.Issuer = Stored.Cert.Subject

\* a root CA was issued from a descriptor whose multi-valued attribute is not in
\* DER order, whose Issuer differs from its Subject and whose IsCA is unset
C2_Witness ==
    /\ Returned({"NewRootCA"})
    /\ last[1].arg.Subject = NameU
    /\ last[1].arg.Issuer = NameR
    /\ ~last[1].arg.IsCA
    /\ Stored.Cert.Subject # last[1].arg.Subject
    /\ Stored.Cert.Issuer = DerOrdered(NameU)

\* the x509.KeyUsage bits that are set
KeyUsageBits(ku) == {b \in {1, 2, 4, 8, 16, 32, 64, 128, 256} : (ku \div b) % 2 = 1}

\* C6: a certificate issued by NewRootCA or NewIntermediateCA has key usage
\* exactly {cert-sign, crl-sign}, no extended key usage and no SAN entry; one
\* issued by NewLeaf has key usage exactly {data-encipherment,
\* digital-signature}, extended key usage exactly {client-auth, server-auth} and
\* the SAN lists of the descriptor.
C6_KeyUsagePolicy ==
    /\ Returned({"NewRootCA", "NewIntermediateCA"}) =>
          /\ Stored.err = NoErr
          /\ KeyUsageBits(Stored.Cert.KeyUsage) = {KeyUsageCertSign, KeyUsageCRLSign}
          /\ Stored.Cert.ExtKeyUsage = <<>>
          /\ Stored.Cert.DNSNames = <<>>
          /\ Stored.Cert.IPAddresses = <<>>
    /\ Returned({"NewLeaf"}) =>
          /\ Stored.err = NoErr
          /\ KeyUsageBits(Stored.Cert.KeyUsage) =
                {KeyUsageDataEncipherment, KeyUsageDigitalSignature}
          /\ Range(Stored.Cert.ExtKeyUsage) = {ExtKeyUsageClientAuth, ExtKeyUsageServerAuth}
          /\ Len(Stored.Cert.ExtKeyUsage) = 2
          /\ Stored.Cert.DNSNames = last[1].arg.DNSSan
          /\ Stored.Cert.IPAddresses = last[1].arg.IPSan

\* an intermediate CA was issued from a descriptor that carried DNS names and
\* IsCA unset
C6_Witness ==
    /\ Returned({"NewIntermediateCA"})
    /\ last[1].arg.DNSSan # <<>>
    /\ ~last[1].arg.IsCA
    /\ Stored.Cert.IsCA
    /\ Stored.Cert.DNSNames = <<>>

\* C11: after NewRootCA returned nil, the issuer of the stored certificate is
\* the Issuer of the descriptor as given.
C11_RootIssuerAsGiven ==
    Returned({"NewRootCA"}) =>
        /\ Stored.err = NoErr
        /\ Stored.Cert.Issuer = last[1].arg.Issuer

\* C12: a certificate issued by NewRootCA is signed with the key that was
\* generated for it and saved under its alias; one issued by
\* NewIntermediateCA or NewLeaf is signed with the key that was loaded from
\* the parent alias, which is the key still stored there when the alias is
\* another one, and never with the new key.
C12_SigningKey ==
    /\ Returned({"NewRootCA"}) =>
          /\ Stored.err = NoErr
          /\ Stored.Cert.SignedBy = Stored.Key
          /\ Stored.Key = nextKey - 1
    /\ Returned({"NewIntermediateCA", "NewLeaf"}) =>
          /\ Stored.err = NoErr
          /\ Stored.Cert.SignedBy = last[1].out.ch.Key
          /\ Stored.Cert.SignedBy # Stored.Key
          /\ Stored.Key = nextKey - 1
          /\ last[1].arg.Alias # last[1].arg.ParentAlias =>
                Stored.Cert.SignedBy = load(fs, last[1].arg.ParentAlias).Key

\* a leaf was issued under an intermediate CA that was issued under the root:
\* every certificate of the chain carries the signature of its parent's key
C12_Witness ==
    /\ Returned({"NewLeaf"})
    /\ last[1].arg.Alias = AliasC
    /\ last[1].arg.ParentAlias = AliasB
    /\ load(fs, AliasA).err = NoErr
    /\ load(fs, AliasB).err = NoErr
    /\ load(fs, AliasA).Cert.SignedBy = load(fs, AliasA).Key
    /\ load(fs, AliasB).Cert.SignedBy = load(fs, AliasA).Key
    /\ Stored.Cert.SignedBy = load(fs, AliasB).Key
    /\ Cardinality({load(fs, AliasA).Key, load(fs, AliasB).Key, Stored.Key}) = 3

-----------------------------------------------------------------------------
(* SpecList: three aliases, one of them the file name of another; every    *)
(* outcome of a write or a removal                                         *)

ListedAliases == {AliasA, AliasB, AliasAPem}

ListRequests ==
    Requests(ListedAliases, {AliasA}, {NameR}, {NoName}, {1}, {0}, {2048}, {<<>>}, {<<>>}, {FALSE})

NextList ==
    \/ \E cd \in ListRequests : NewRootCA(1, cd)
    \/ \E cd \in ListRequests : NewIntermediateCA(1, cd)
    \/ \E cd \in ListRequests : NewLeaf(1, cd)
    \/ \E io \in IoOutcomes : SaveCert(1, io)
    \/ \E io \in IoOutcomes : SaveKey(1, io)
    \/ \E a \in ListedAliases : Delete(1, a, "ok")
    \/ DeleteCert(1, "ok")
    \/ \E io \in {"ok", "eopen"} : List(1, io)

SpecList == Init /\ [][NextList]_vars

\* C3: in a run from the empty directory in which nothing was deleted and no
\* write failed, List returns every alias that was issued, once, and nothing
\* else.
C3_ListCorrect ==
    (Idle(1) /\ last[1].op = "List" /\ last[1].err = NoErr /\ ~hist.deleted /\ ~hist.ioFailed) =>
        /\ Range(last[1].out) = hist.issued
        /\ Len(last[1].out) = Cardinality(hist.issued)

\* List ran after three aliases were issued, six files in the directory
C3_Witness ==
    /\ Idle(1)
    /\ last[1].op = "List"
    /\ last[1].err = NoErr
    /\ ~hist.deleted
    /\ ~hist.ioFailed
    /\ hist.issued = ListedAliases
    /\ Cardinality(DOMAIN fs) = 6
    /\ Len(last[1].out) = 3

-----------------------------------------------------------------------------
(* SpecCheck: requests that break the validation rules, alone and together *)

CheckRequests ==
    Requests({<<>>, AliasA}, {<<>>, AliasA}, {NoName, NameR}, {NoName}, {0, 1}, {0, 7}, {2048}, {<<>>}, {<<>>}, {FALSE})

NextCheck ==
    \/ \E cd \in CheckRequests : NewRootCA(1, cd)
    \/ \E cd \in CheckRequests : NewIntermediateCA(1, cd)
    \/ \E cd \in CheckRequests : NewLeaf(1, cd)
    \/ SaveCert(1, "ok")
    \/ SaveKey(1, "ok")
    \/ Delete(1, AliasA, "ok")
    \/ DeleteCert(1, "ok")
    \/ Get(1, AliasA)
    \/ List(1, "ok")

SpecCheck == Init /\ [][NextCheck]_vars

\* the call returned err and the directory is as it was before the call
RejectedWith(op, err) ==
    /\ Idle(1)'
    /\ last'[1].op = op
    /\ last'[1].err = err
    /\ fs' = fs

\* C5, as the specification states it: NewLeaf with an empty alias returns
\* the alias-missing error and leaves the directory as it was.
C5_EmptyAliasRejected ==
    [][\A cd \in CheckRequests :
          (cd.Alias = <<>> /\ NewLeaf(1, cd)) => RejectedWith("NewLeaf", ErrAliasMissing)]_vars

\* C5: NewLeaf with an empty alias leaves the directory as it was and returns
\* the alias-missing error when the subject is not empty, the
\* subject-missing error when the subject is empty as well.
C5_EmptyAliasRejectedAfterSubject ==
    [][\A cd \in CheckRequests :
          (cd.Alias = <<>> /\ NewLeaf(1, cd)) =>
              RejectedWith("NewLeaf",
                           IF NameString(cd.Subject) = <<>> THEN ErrSubjectMissing
                           ELSE ErrAliasMissing)]_vars

\* NewLeaf was refused for its empty alias although the parent alias and the
\* validity were wrong too, while the directory holds a pair
C5_Witness ==
    /\ Idle(1)
    /\ last[1].op = "NewLeaf"
    /\ last[1].err = ErrAliasMissing
    /\ last[1].arg.Alias = <<>>
    /\ last[1].arg.ParentAlias = <<>>
    /\ last[1].arg.ValidYears = 0
    /\ HasCert(fs, AliasA)
    /\ HasKey(fs, AliasA)

\* the error the rule chain is to return: subject, alias, parent alias (for a
\* chained certificate only), validity
FirstRuleBroken(cd, chained) ==
    IF NameString(cd.Subject) = <<>> THEN ErrSubjectMissing
    ELSE IF cd.Alias = <<>> THEN ErrAliasMissing
    ELSE IF chained /\ cd.ParentAlias = <<>> THEN ErrParentAliasMissing
    ELSE IF cd.ValidYears < 1 THEN ErrValidYears
    ELSE NoErr

RuleErrors == {ErrSubjectMissing, ErrAliasMissing, ErrParentAliasMissing, ErrValidYears}

Chained(op) == op \in {"NewIntermediateCA", "NewLeaf"}

\* C13: every issue operation returns the error of the first broken rule in
\* the order subject, alias, parent alias (NewIntermediateCA and NewLeaf
\* only), validity of at least one year, with the directory and the key
\* counter as they were; a call that breaks no rule returns none of these
\* errors, and only such a call gets as far as save.  NewRootCA accepts an
\* empty parent alias.
C13_RuleChain ==
    [][/\ (Idle(1) /\ Idle(1)' /\ last'[1] # last[1] /\ last'[1].op \in IssueOps) =>
            LET broken == FirstRuleBroken(last'[1].arg, Chained(last'[1].op))
            IN IF broken # NoErr
               THEN last'[1].err = broken /\ fs' = fs /\ nextKey' = nextKey
               ELSE last'[1].err \notin RuleErrors
       /\ pc'[1] \in {"saveCert", "saveKey"} =>
            FirstRuleBroken(pend'[1].arg, Chained(pend'[1].op)) = NoErr]_vars

\* NewIntermediateCA was refused for its empty parent alias although the
\* validity was wrong too, after a root CA was issued with no parent alias
C13_Witness ==
    /\ Idle(1)
    /\ last[1].op = "NewIntermediateCA"
    /\ last[1].err = ErrParentAliasMissing
    /\ last[1].arg.ValidYears = 0
    /\ AliasA \in hist.issued
    /\ load(fs, AliasA).err = NoErr

-----------------------------------------------------------------------------
(* SpecEnv: the files of the parent alias are also written and removed     *)
(* from outside the program                                                *)

ParentFiles == {AliasA \o pemSuffix, AliasA \o keySuffix}

ExternalContents ==
    {RawData,
     pemEncode(typeCert, BadDER),
     pemEncode(typeRsaPrivateKey, MarshalPKCS1PrivateKey(-1))}

ExternalPut(file, data) ==
    /\ fs' = [f \in DOMAIN fs \cup {file} |-> IF f = file THEN [data |-> data, perm |-> certPerm] ELSE fs[f]]
    /\ fs' # fs
    /\ UNCHANGED <<privileged, nextKey, pc, pend, last, hist>>

ExternalRemove(file) ==
    /\ Exists(fs, file)
    /\ fs' = [f \in DOMAIN fs \ {file} |-> fs[f]]
    /\ UNCHANGED <<privileged, nextKey, pc, pend, last, hist>>

EnvRootRequests ==
    Requests({AliasA}, {<<>>}, {NameR}, {NoName}, {1}, {-1, 0}, {0, 2048}, {<<>>}, {<<>>}, {FALSE})

EnvChainRequests ==
    Requests({AliasB}, {AliasA}, {NameR}, {NoName}, {1}, {-1, 0}, {0, 2048}, {<<>>}, {<<>>}, {FALSE})

NextEnv ==
    \/ \E cd \in EnvRootRequests : NewRootCA(1, cd)
    \/ \E cd \in EnvChainRequests : NewIntermediateCA(1, cd)
    \/ \E cd \in EnvChainRequests : NewLeaf(1, cd)
    \/ SaveCert(1, "ok")
    \/ SaveKey(1, "ok")
    \/ \E file \in ParentFiles, data \in ExternalContents : ExternalPut(file, data)
    \/ \E file \in ParentFiles : ExternalRemove(file)
    \/ Get(1, AliasA)

SpecEnv == Init /\ [][NextEnv]_vars

\* what a file of the directory holds
BlockOf(dir, file) == pemDecode(dir[file].data)

BadBlock(dir, file, type) == BlockOf(dir, file).nil \/ BlockOf(dir, file).Type # type

CertLoads(dir, alias) ==
    /\ HasCert(dir, alias)
    /\ ~BadBlock(dir, alias \o pemSuffix, typeCert)
    /\ BlockOf(dir, alias \o pemSuffix).Bytes.der = "cert"

\* a file of the alias is there with no block or a block of the wrong type
SomeBadBlock(dir, alias) ==
    \/ HasCert(dir, alias) /\ BadBlock(dir, alias \o pemSuffix, typeCert)
    \/ HasKey(dir, alias) /\ BadBlock(dir, alias \o keySuffix, typeRsaPrivateKey)

\* C9, as the specification states it: Get fails with the not-found error
\* whenever one of the two files is missing, whatever the other holds, and
\* with the format error when both are there and one has no block or a block
\* of the wrong type.
C9_LoadErrors ==
    [][(Get(1, AliasA) /\ last'[1].op = "Get") =>
          /\ (~HasCert(fs, AliasA) \/ ~HasKey(fs, AliasA)) => last'[1].err = ErrNotExist
          /\ (HasCert(fs, AliasA) /\ HasKey(fs, AliasA) /\ SomeBadBlock(fs, AliasA)) =>
                 last'[1].err = ErrFormat]_vars

\* C9: Get looks at the certificate file first and at the key file only when
\* the certificate file loads.  It fails with the not-found error when the
\* certificate file is missing, or loads while the key file is missing; with
\* the format error when the certificate file has no block or a block of the
\* wrong type, or loads while the key file has no block or a block of the
\* wrong type.
C9_LoadErrorsInOrder ==
    [][(Get(1, AliasA) /\ last'[1].op = "Get") =>
          /\ ~HasCert(fs, AliasA) => last'[1].err = ErrNotExist
          /\ (HasCert(fs, AliasA) /\ BadBlock(fs, AliasA \o pemSuffix, typeCert)) =>
                 last'[1].err = ErrFormat
          /\ (CertLoads(fs, AliasA) /\ ~HasKey(fs, AliasA)) => last'[1].err = ErrNotExist
          /\ (CertLoads(fs, AliasA) /\ HasKey(fs, AliasA)
                /\ BadBlock(fs, AliasA \o keySuffix, typeRsaPrivateKey)) =>
                 last'[1].err = ErrFormat]_vars

\* Get failed with the format error on a key file that holds a block of the
\* certificate type, next to a certificate the program issued
C9_Witness ==
    /\ Idle(1)
    /\ last[1].op = "Get"
    /\ last[1].err = ErrFormat
    /\ AliasA \in hist.issued
    /\ CertLoads(fs, AliasA)
    /\ HasKey(fs, AliasA)
    /\ ~BlockOf(fs, AliasA \o keySuffix).nil
    /\ BlockOf(fs, AliasA \o keySuffix).Type = typeCert

\* the errors of the steps of create that come before save
StepErrors == {ErrNotExist, ErrFormat, ErrParse, ErrKeyGen, ErrSign}

\* C10: an issue operation that passes validation and fails while it loads
\* the parent pair, generates the key or signs, returns that error and leaves
\* the directory as it was.
C10_NoPartialWrite ==
    [][/\ \A cd \in EnvRootRequests :
            LET r == create(fs, [cd EXCEPT !.SelfSigned = TRUE, !.IsCA = TRUE], nextKey)
            IN (NewRootCA(1, cd) /\ r.err # NoErr) =>
                   (r.err \in StepErrors /\ RejectedWith("NewRootCA", r.err))
       /\ \A cd \in EnvChainRequests :
            LET r == create(fs, [cd EXCEPT !.SelfSigned = FALSE, !.IsCA = TRUE], nextKey)
            IN (NewIntermediateCA(1, cd) /\ r.err # NoErr) =>
                   (r.err \in StepErrors /\ RejectedWith("NewIntermediateCA", r.err))
       /\ \A cd \in EnvChainRequests :
            LET r == create(fs, [cd EXCEPT !.SelfSigned = FALSE, !.IsCA = FALSE], nextKey)
            IN (NewLeaf(1, cd) /\ r.err # NoErr) =>
                   (r.err \in StepErrors /\ RejectedWith("NewLeaf", r.err))]_vars

\* NewLeaf failed to sign with a parent key that does not belong to the
\* parent certificate, and the requested alias has no file
C10_Witness ==
    /\ Idle(1)
    /\ last[1].op = "NewLeaf"
    /\ last[1].err = ErrSign
    /\ last[1].arg.Serial = 0
    /\ last[1].arg.KeySize = 2048
    /\ load(fs, AliasA).err = NoErr
    /\ ~HasFiles(fs, AliasB)

-----------------------------------------------------------------------------
(* SpecTwo: the processes of Procs work on one directory and one alias;    *)
(* every file system call is a step of its own                             *)

TwoRequests ==
    Requests({AliasA}, {<<>>}, {NameR}, {NoName}, {1}, {0}, {2048}, {<<>>}, {<<>>}, {FALSE})

NextTwo ==
    \/ \E p \in Procs, cd \in TwoRequests : NewRootCA(p, cd)
    \/ \E p \in Procs : SaveCert(p, "ok")
    \/ \E p \in Procs : SaveKey(p, "ok")
    \/ \E p \in Procs : Delete(p, AliasA, "ok")
    \/ \E p \in Procs : DeleteCert(p, "ok")

SpecTwo == Init /\ [][NextTwo]_vars

\* the write of the key file by p is not refused by the mode of the file
KeyWritable(p) == privileged \/ ~HasKey(fs, pend[p].alias)

\* C15: nothing holds back the key write of a process while another process
\* is inside save or Delete of the same alias.  When the certificate file is
\* the one another process has written, the key write of p leaves that
\* certificate next to the key of p; when the certificate file has been
\* removed, it leaves the key of p with no certificate file.
C15_MixedPair ==
    [][\A p \in Procs :
          (SaveKey(p, "ok") /\ KeyWritable(p)) =>
              /\ last'[p].err = NoErr
              /\ HasKey(fs', pend[p].alias)
              /\ fs'[pend[p].alias \o keySuffix].data = pemEncode(typeRsaPrivateKey, pend[p].key)
              /\ HasCert(fs', pend[p].alias) <=> HasCert(fs, pend[p].alias)
              /\ \A q \in Procs \ {p} :
                    (/\ pc[q] = "saveKey"
                     /\ pend[q].alias = pend[p].alias
                     /\ HasCert(fs, pend[p].alias)
                     /\ fs[pend[p].alias \o pemSuffix].data = pemEncode(typeCert, pend[q].cert)) =>
                        /\ pend[q].cert # pend[p].cert
                        /\ fs'[pend[p].alias \o pemSuffix].data = pemEncode(typeCert, pend[q].cert)]_vars

\* two processes have issued the alias, both returned nil, and the alias
\* holds the certificate of one next to the key of the other
C15_Witness ==
    /\ \A p \in {1, 2} : Idle(p) /\ last[p].op = "NewRootCA" /\ last[p].err = NoErr
    /\ ~hist.deleted
    /\ Saved(fs, AliasA)
    /\ load(fs, AliasA).Cert.PublicKey # load(fs, AliasA).Key

====
